---- MODULE Spec2Model ----
(***************************************************************************)
(* The per-file transform of the bundler (the loader created by            *)
(* createLoader): parse, one outer traversal with the ImportDeclaration,   *)
(* CallExpression, Identifier and MemberExpression visitors, generate.     *)
(*                                                                         *)
(* The syntax tree is an arena: a sequence of nodes in depth-first         *)
(* pre-order, each with the depth of the function body that holds it.  The *)
(* nodes after node i that are deeper than it are the body of the function *)
(* node i carries (a function declaration, or the callback of a call).     *)
(***************************************************************************)
EXTENDS Integers, Sequences, FiniteSets, TLC

\* ---------------------------------------------------------------- bounds

MaxNodes == 3      \* statements of a file
MaxDepth == 2      \* nesting of function bodies
MaxLine == 2       \* line of a parser failure
MaxColumn == 1     \* 0-based column of a parser failure

\* ----------------------------------------------------------- JS values

\* The value of a property a node does not have.
Undefined == "undefined"

RESOLVE_NAMES ==
    {"require", "require.ensure", "require.resolve", "module.hot.accept", "module.hot.decline"}
RESOLVE_NAMES_CHUNK == {"require.ensure"}
RESOLVE_NAMES_SENSITIVE == {"require", "require.resolve"}

\* this.config.replaceVariables: name -> source of the replacement expression
replaceVariables == [n \in {"__DEV__"} |-> "false"]

FilePath == "/app/index.js"

\* ------------------------------------------------------------ the tree

\* Expression nodes in argument position.  `name` is the node's name
\* property, `value` its value property.
Expr(type, name, value, elements, params) ==
    [type |-> type, name |-> name, value |-> value, elements |-> elements, params |-> params]
StringLiteral(v) == Expr("StringLiteral", Undefined, v, <<>>, <<>>)
Identifier(n) == Expr("Identifier", n, Undefined, <<>>, <<>>)
ArrayExpression(es) == Expr("ArrayExpression", Undefined, Undefined, es, <<>>)
\* params: the name property of each parameter; a destructuring pattern, a
\* default or a rest parameter is a node without a name property.
FunctionExpression(ps) == Expr("FunctionExpression", Undefined, Undefined, <<>>, ps)
\* The element babylon stores for a hole of an array literal: null.
Null == Expr("null", Undefined, Undefined, <<>>, <<>>)

\* Statement-level nodes.  `chain` is the identifier chain of a callee, of an
\* identifier or of a member expression (object first); `arguments` the
\* arguments of a call; `params` the parameters of a function declaration;
\* `source` the source literal of an import declaration.
Node(type, chain, arguments, params, source) ==
    [type |-> type, depth |-> 0, chain |-> chain, arguments |-> arguments,
     params |-> params, source |-> source]
Part(n) == [type |-> "Identifier", name |-> n, source |-> n]
Chain1(a) == <<Part(a)>>
Chain2(a, b) == <<Part(a), Part(b)>>
Chain3(a, b, c) == <<Part(a), Part(b), Part(c)>>

ImportDeclaration(s) == Node("ImportDeclaration", <<>>, <<>>, <<>>, StringLiteral(s))
CallExpression(chain, args) == Node("CallExpression", chain, args, <<>>, Null)
FunctionDeclaration(ps) == Node("FunctionDeclaration", <<>>, <<>>, ps, Null)
IdentifierStatement(n) == Node("Identifier", Chain1(n), <<>>, <<>>, Null)
MemberExpression(o, p) == Node("MemberExpression", Chain2(o, p), <<>>, <<>>, Null)

Require == Chain1("require")
RequireResolve == Chain2("require", "resolve")
RequireEnsure == Chain2("require", "ensure")
HotAccept == Chain3("module", "hot", "accept")
HotDecline == Chain3("module", "hot", "decline")

\* ------------------------------------------------------ generate (text)

RECURSIVE Join(_, _)
Join(strs, sep) ==
    IF strs = <<>> THEN ""
    ELSE IF Len(strs) = 1 THEN strs[1]
    ELSE strs[1] \o sep \o Join(Tail(strs), sep)

\* A parameter without a name property prints as a destructuring pattern.
PrintParams(ps) == Join([k \in 1..Len(ps) |-> IF ps[k] = Undefined THEN "{p}" ELSE ps[k]], ",")

\* The generator prints a literal from its value and an identifier from its
\* name; a value property on any other node is not printed.
PrintLeaf(e) ==
    CASE e.type = "StringLiteral" -> "'" \o e.value \o "'"
      [] e.type = "Identifier" -> e.name
      [] e.type = "FunctionExpression" -> "function(" \o PrintParams(e.params) \o "){}"
      [] OTHER -> ""

\* A hole prints as nothing; a trailing hole keeps its comma.
PrintExpr(e) ==
    IF e.type = "ArrayExpression"
    THEN "[" \o Join([k \in 1..Len(e.elements) |-> PrintLeaf(e.elements[k])], ",")
             \o (IF e.elements # <<>> /\ e.elements[Len(e.elements)].type = "null" THEN "," ELSE "")
             \o "]"
    ELSE PrintLeaf(e)

PrintChain(chain) == Join([k \in 1..Len(chain) |-> chain[k].source], ".")

PrintNode(node) ==
    CASE node.type = "ImportDeclaration" -> "import " \o PrintExpr(node.source)
      [] node.type = "CallExpression" ->
           PrintChain(node.chain) \o "("
             \o Join([k \in 1..Len(node.arguments) |-> PrintExpr(node.arguments[k])], ",") \o ")"
      [] node.type = "FunctionDeclaration" -> "function f(" \o PrintParams(node.params) \o "){}"
      [] OTHER -> PrintChain(node.chain)

\* generate(ast, ...).code: one line of text per statement, with its depth.
generate(tree) == [k \in 1..Len(tree) |-> <<PrintNode(tree[k]), tree[k].depth>>]

\* ------------------------------------------------------- the input files

EnsureShapes ==
    { CallExpression(RequireEnsure, <<Identifier("x")>>),
      CallExpression(RequireEnsure, <<ArrayExpression(<<StringLiteral("a"), StringLiteral("b")>>)>>),
      CallExpression(RequireEnsure, <<ArrayExpression(<<Identifier("x")>>)>>),
      CallExpression(RequireEnsure, <<ArrayExpression(<<Null>>)>>),
      CallExpression(RequireEnsure, <<ArrayExpression(<<StringLiteral("a")>>), FunctionExpression(<<"req">>)>>),
      CallExpression(RequireEnsure, <<ArrayExpression(<<>>), FunctionExpression(<<"require">>)>>),
      CallExpression(RequireEnsure, <<ArrayExpression(<<>>), FunctionExpression(<<Undefined>>)>>),
      CallExpression(RequireEnsure, <<ArrayExpression(<<>>), FunctionExpression(<<>>)>>),
      CallExpression(RequireEnsure, <<ArrayExpression(<<StringLiteral("a")>>), Identifier("cb"), StringLiteral("myChunk")>>),
      CallExpression(RequireEnsure, <<ArrayExpression(<<>>), Identifier("cb"), Identifier("x")>>) }

\* The statements that stand at the top level of the files checked ...
TopShapes ==
    { ImportDeclaration("a"), ImportDeclaration("b"),
      CallExpression(Require, <<StringLiteral("a")>>),
      CallExpression(Require, <<Identifier("x")>>),
      CallExpression(HotAccept, <<StringLiteral("a")>>),
      CallExpression(HotDecline, <<Identifier("x")>>),
      FunctionDeclaration(<<"require">>),
      IdentifierStatement("__DEV__"), IdentifierStatement("__dev__"),
      MemberExpression("foo", "__DEV__") }
    \cup EnsureShapes

\* ... and those that stand inside a function body.
BodyShapes ==
    { CallExpression(Require, <<StringLiteral("a")>>),
      CallExpression(Require, <<>>),
      CallExpression(RequireResolve, <<StringLiteral("a")>>),
      CallExpression(RequireResolve, <<Identifier("x")>>),
      CallExpression(HotAccept, <<Identifier("x")>>),
      CallExpression(HotDecline, <<StringLiteral("a")>>),
      CallExpression(Chain1("req"), <<StringLiteral("a")>>),
      CallExpression(Chain1("req"), <<Identifier("x")>>),
      CallExpression(Chain1("req"), <<>>),
      CallExpression(Chain1("other"), <<StringLiteral("a")>>),
      CallExpression(Chain2("foo", "bar"), <<StringLiteral("a")>>),
      CallExpression(RequireEnsure, <<ArrayExpression(<<StringLiteral("a")>>), FunctionExpression(<<"req">>)>>),
      CallExpression(RequireEnsure, <<ArrayExpression(<<>>), FunctionExpression(<<Undefined>>)>>),
      FunctionDeclaration(<<"req">>) }

TopTexts == {PrintNode(n) : n \in TopShapes}
BodyTexts == {PrintNode(n) : n \in BodyShapes}

\* babylon on one statement: the node its text denotes.
ParseTable ==
    [t \in TopTexts \cup BodyTexts |-> CHOOSE n \in TopShapes \cup BodyShapes : PrintNode(n) = t]

\* parse(file.contents, ...) when it succeeds.  A line of the contents is
\* <<text of the statement, depth of the function body it stands in>>.
parse(contents) == [k \in 1..Len(contents) |-> [ParseTable[contents[k][1]] EXCEPT !.depth = contents[k][2]]]

\* The function whose body the deeper nodes after this node are, if any.
BodyOwner(node) ==
    \/ node.type = "FunctionDeclaration"
    \/ /\ node.type = "CallExpression"
       /\ Len(node.arguments) >= 2
       /\ node.arguments[2].type = "FunctionExpression"

\* The parameter names of that function.
ScopeParams(node) ==
    IF node.type = "FunctionDeclaration" THEN node.params
    ELSE node.arguments[2].params

OwnerTexts == {t \in TopTexts \cup BodyTexts : BodyOwner(ParseTable[t])}

TextsAt(d) == IF d = 0 THEN TopTexts ELSE BodyTexts

DepthsAfter(s) ==
    IF s = <<>> THEN {0}
    ELSE LET last == s[Len(s)]
             deepest == IF last[1] \in OwnerTexts THEN last[2] + 1 ELSE last[2]
         IN  {d \in 0..MaxDepth : d <= deepest}

\* The lines that may follow the lines s.
Lines(s) == UNION {{<<t, d>> : t \in TextsAt(d)} : d \in DepthsAfter(s)}

\* What parse does on a file: returns a tree, or fails with or without a location.
Parsed == [kind |-> "tree", line |-> 0, column |-> 0]
ParseErrors ==
    {[kind |-> "error", line |-> 0, column |-> 0]}
    \cup {[kind |-> "errorLoc", line |-> l, column |-> c] : l \in 1..MaxLine, c \in 0..MaxColumn}

VARIABLES
    file,           \* the input: shouldProcess, what parse does with it, its contents
    pc,             \* "start", "traverse", "returned", "thrown"
    ast,            \* the tree the traversal mutates
    cursor,         \* the node the outer traversal visits next
    sub,            \* within a member expression: 0 the node, 1 its object, 2 its property
    imports,        \* const imports
    chunks,         \* const chunks
    resolveCalls,   \* the calls made to this.getImportRequest, oldest first
    nextRequestID,  \* the identifier the resolution capability assigns next
    nextUniqueID,   \* the token this.getNextUniqueID returns next
    thrown,         \* the failure that left the transform
    result          \* the value returned

vars == <<file, pc, ast, cursor, sub, imports, chunks, resolveCalls, nextRequestID, nextUniqueID,
          thrown, result>>

NoIssue == [kind |-> "none", contents |-> <<>>, line |-> 0, column |-> 0, severity |-> "none"]
NoResult == [kind |-> "none", chunks |-> <<>>, imports |-> <<>>, contents |-> <<>>]

File(process, outcome, contents) ==
    [filePath |-> FilePath, shouldProcess |-> process, parse |-> outcome, contents |-> contents]

\* A file the parser rejects.
BadContents == <<<<"require('a", 0>>>>

RECURSIVE IsFile(_, _)
IsFile(s, n) ==
    \/ file = File(TRUE, Parsed, s)
    \/ /\ n > 0
       /\ \E line \in Lines(s) : IsFile(Append(s, line), n - 1)

Init ==
    /\ \/ file = File(FALSE, Parsed, <<>>)
       \/ \E e \in ParseErrors : file = File(TRUE, e, BadContents)
       \/ IsFile(<<>>, MaxNodes)
    /\ pc = "start"
    /\ ast = <<>>
    /\ cursor = 1
    /\ sub = 0
    /\ imports = <<>>
    /\ chunks = <<>>
    /\ resolveCalls = <<>>
    /\ nextRequestID = 1
    /\ nextUniqueID = 1
    /\ thrown = NoIssue
    /\ result = NoResult

\* --------------------------------------------------------------- helpers

\* getName(obj): the name of an identifier; of a member expression the names
\* of its object and of its property joined by dots.
getName(chain) == Join([k \in 1..Len(chain) |-> chain[k].name], ".")

\* node.callee.name: only an identifier has a name property.
CalleeName(node) == IF Len(node.chain) = 1 THEN node.chain[1].name ELSE Undefined

\* getParsedReplacement(source): the expression the replacement source parses to.
getParsedReplacement(source) == [type |-> "BooleanLiteral", name |-> Undefined, source |-> source]

\* The last node of the subtree of node i.
RECURSIVE SubtreeEnd(_, _, _)
SubtreeEnd(tree, i, j) ==
    IF j < Len(tree) /\ tree[j + 1].depth > tree[i].depth THEN SubtreeEnd(tree, i, j + 1) ELSE j

Inside(tree, owner, i) == owner < i /\ i <= SubtreeEnd(tree, owner, owner)

\* path.scope.hasBinding(name) for the path of node i: a function around the
\* node declares the name.
hasBinding(tree, i, name) ==
    \E j \in 1..(i - 1) :
        /\ BodyOwner(tree[j])
        /\ Inside(tree, j, i)
        /\ \E k \in 1..Len(ScopeParams(tree[j])) : ScopeParams(tree[j])[k] = name

\* The part of the transform's state a visitor reads and writes.
Locals ==
    [ast |-> ast, imports |-> imports, chunks |-> chunks, resolveCalls |-> resolveCalls,
     nextRequestID |-> nextRequestID, nextUniqueID |-> nextUniqueID, thrown |-> thrown]

TypeError == [kind |-> "TypeError", contents |-> <<>>, line |-> 0, column |-> 0, severity |-> "none"]

\* this.getImportRequest(value, file.filePath): the request, with the next identifier.
getImportRequest(m, value) == [id |-> m.nextRequestID, request |-> value, from |-> FilePath]

\* The state of the resolution capability after that call.  `at` is the node
\* whose value was passed (<<statement, 0>> its source or first argument,
\* <<statement, k>> element k of its first argument), `by` the place of the
\* call in the code, `owner` the require.ensure statement being processed.
Called(m, value, at, by, owner) ==
    [m EXCEPT !.resolveCalls =
                  Append(@, [value |-> value, at |-> at, by |-> by, owner |-> owner,
                             id |-> m.nextRequestID]),
              !.nextRequestID = @ + 1]

\* node.value = request.id.toString()
IdString(request) == ToString(request.id)

\* --------------------------------------------------------- processResolve

\* processResolve with imports.unshift for imports.push.
processResolveUnshift(m, i) ==
    LET isImport == m.ast[i].type = "ImportDeclaration"
        node == IF isImport THEN m.ast[i].source ELSE m.ast[i].arguments[1]
        request == getImportRequest(m, node.value)
        called == Called(m, node.value, <<i, 0>>, "processResolve", 0)
    IN  [called EXCEPT
           !.imports = <<request>> \o @,
           !.ast = IF isImport THEN [@ EXCEPT ![i].source.value = IdString(request)]
                   ELSE [@ EXCEPT ![i].arguments[1].value = IdString(request)]]

\* processResolve(node), node the source of import i or the first argument of call i.
processResolve(m, i) ==
    LET isImport == m.ast[i].type = "ImportDeclaration"
        node == IF isImport THEN m.ast[i].source ELSE m.ast[i].arguments[1]
        request == getImportRequest(m, node.value)
        called == Called(m, node.value, <<i, 0>>, "processResolve", 0)
    IN  [called EXCEPT
           !.imports = Append(@, request),
           !.ast = IF isImport THEN [@ EXCEPT ![i].source.value = IdString(request)]
                   ELSE [@ EXCEPT ![i].arguments[1].value = IdString(request)]]

\* ----------------------------------------------------------- processSplit

\* Whether the call names its chunk: a third argument that is a string literal.
NamesChunk(node) == Len(node.arguments) >= 3 /\ node.arguments[3].type = "StringLiteral"

\* path.node.arguments[0].elements.forEach(...), from element k on.
\* c is [m |-> the locals, chunk |-> the chunk being built].
RECURSIVE EntryLoop(_, _, _)
EntryLoop(c, i, k) ==
    LET elements == c.m.ast[i].arguments[1].elements
    IN  IF k > Len(elements) THEN c
        ELSE IF elements[k].type = "null"
        THEN [c EXCEPT !.m.thrown = TypeError]      \* element.value of null
        ELSE LET request == getImportRequest(c.m, elements[k].value)
                 called == Called(c.m, elements[k].value, <<i, k>>, "entry", i)
             IN  EntryLoop(
                   [m |-> [called EXCEPT !.ast[i].arguments[1].elements[k].value = IdString(request)],
                    chunk |-> [c.chunk EXCEPT !.entry = Append(@, request)]],
                   i, k + 1)

\* The nested visitor pushing to the file's imports for chunk.imports.
NestedVisitIntoImports(c, i, j) ==
    IF CalleeName(c.m.ast[j]) = c.m.ast[i].arguments[2].params[1]
    THEN IF Len(c.m.ast[j].arguments) = 0
         THEN [c EXCEPT !.m.thrown = TypeError]
         ELSE LET value == c.m.ast[j].arguments[1].value
                  request == getImportRequest(c.m, value)
                  called == Called(c.m, value, <<j, 0>>, "nested", i)
              IN  [m |-> [called EXCEPT !.ast[j].arguments[1].value = IdString(request),
                                        !.imports = Append(@, request)],
                   chunk |-> c.chunk]
    ELSE c

\* The CallExpression visitor of the nested traversal, on node j.
NestedVisit(c, i, j) ==
    IF CalleeName(c.m.ast[j]) = c.m.ast[i].arguments[2].params[1]
    THEN IF Len(c.m.ast[j].arguments) = 0
         THEN [c EXCEPT !.m.thrown = TypeError]     \* arguments[0].value of undefined
         ELSE LET value == c.m.ast[j].arguments[1].value
                  request == getImportRequest(c.m, value)
                  called == Called(c.m, value, <<j, 0>>, "nested", i)
              IN  [m |-> [called EXCEPT !.ast[j].arguments[1].value = IdString(request)],
                   chunk |-> [c.chunk EXCEPT !.imports = Append(@, request)]]
    ELSE c

\* path.scope.traverse(path.node.arguments[1], {CallExpression}): the call
\* expressions of the callback of call i, from node j on, in tree order.
RECURSIVE NestedTraverse(_, _, _)
NestedTraverse(c, i, j) ==
    IF j > SubtreeEnd(c.m.ast, i, i) \/ c.m.thrown.kind # "none" THEN c
    ELSE IF c.m.ast[j].type = "CallExpression"
    THEN NestedTraverse(NestedVisit(c, i, j), i, j + 1)
    ELSE NestedTraverse(c, i, j + 1)

\* Whether call i has a callback the nested traversal walks.
HasCallback(node) ==
    /\ Len(node.arguments) >= 2
    /\ node.arguments[2].type = "FunctionExpression"
    /\ Len(node.arguments[2].params) > 0

\* The chunk name without the test of the third argument: always a fresh token.
ChunkNameAlwaysFresh(m, i) ==
    [name |-> ToString(m.nextUniqueID), m |-> [m EXCEPT !.nextUniqueID = @ + 1]]

\* The name of the chunk of call i, and the locals after it was chosen.
ChunkName(m, i) ==
    IF NamesChunk(m.ast[i])
    THEN [name |-> m.ast[i].arguments[3].value, m |-> m]
    ELSE [name |-> ToString(m.nextUniqueID), m |-> [m EXCEPT !.nextUniqueID = @ + 1]]

processSplit(m, i) ==
    LET named == ChunkName(m, i)
        chunk == [name |-> named.name, entry |-> <<>>, imports |-> <<>>]
        entered == EntryLoop([m |-> named.m, chunk |-> chunk], i, 1)
        nested == IF entered.m.thrown.kind = "none" /\ HasCallback(m.ast[i])
                  THEN NestedTraverse(entered, i, i + 1)
                  ELSE entered
    IN  IF nested.m.thrown.kind # "none" THEN nested.m
        ELSE [nested.m EXCEPT !.chunks = Append(@, nested.chunk)]

\* ------------------------------------------------- the visitors' bodies

\* The type the first argument of a call to `name` must have.
ParameterType(name) == IF name = "require.ensure" THEN "ArrayExpression" ELSE "StringLiteral"

\* The visitor's tests without the scope guard of the sensitive names.
RecognizedUnguarded(tree, i) ==
    LET name == getName(tree[i].chain)
    IN  /\ name \in RESOLVE_NAMES
        /\ Len(tree[i].arguments) >= 1
        /\ tree[i].arguments[1].type = ParameterType(name)

\* Whether the CallExpression visitor processes call i.
Recognized(tree, i) ==
    LET name == getName(tree[i].chain)
    IN  /\ name \in RESOLVE_NAMES
        /\ Len(tree[i].arguments) >= 1
        /\ tree[i].arguments[1].type = ParameterType(name)
        /\ ~(name \in RESOLVE_NAMES_SENSITIVE /\ hasBinding(tree, i, "require"))

CallExpressionVisitor(m, i) ==
    IF ~Recognized(m.ast, i) THEN m
    ELSE IF getName(m.ast[i].chain) \in RESOLVE_NAMES_CHUNK THEN processSplit(m, i)
    ELSE processResolve(m, i)

\* Whether processReplaceable replaces the node with this chain.
Replaceable(chain) == getName(chain) \in DOMAIN replaceVariables

\* processReplaceable on statement i itself: the whole node is replaced.
processReplaceable(m, i) ==
    IF Replaceable(m.ast[i].chain)
    THEN LET parsed == getParsedReplacement(replaceVariables[getName(m.ast[i].chain)])
         IN  [m EXCEPT !.ast[i].type = parsed.type, !.ast[i].chain = <<parsed>>]
    ELSE m

\* processReplaceable on part k of member expression i (1 its object, 2 its property).
processReplaceablePart(m, i, k) ==
    IF Replaceable(<<m.ast[i].chain[k]>>)
    THEN [m EXCEPT !.ast[i].chain[k] = getParsedReplacement(replaceVariables[m.ast[i].chain[k].name])]
    ELSE m

\* ------------------------------------------------------------- actions

Store(m) ==
    /\ ast' = m.ast
    /\ imports' = m.imports
    /\ chunks' = m.chunks
    /\ resolveCalls' = m.resolveCalls
    /\ nextRequestID' = m.nextRequestID
    /\ nextUniqueID' = m.nextUniqueID
    /\ thrown' = m.thrown

\* The traversal goes on to the next node, or the failure leaves the transform.
Continue(m) ==
    /\ Store(m)
    /\ IF m.thrown.kind = "none"
       THEN pc' = pc /\ cursor' = cursor + 1
       ELSE pc' = "thrown" /\ cursor' = cursor
    /\ sub' = 0
    /\ UNCHANGED <<file, result>>

Visiting(type) ==
    /\ pc = "traverse"
    /\ cursor <= Len(ast)
    /\ ast[cursor].type = type

\* if (!shouldProcess(...)) return null
NotProcessed ==
    /\ pc = "start"
    /\ ~file.shouldProcess
    /\ pc' = "returned"
    /\ result' = [NoResult EXCEPT !.kind = "null"]
    /\ UNCHANGED <<file, ast, cursor, sub, imports, chunks, resolveCalls, nextRequestID,
                   nextUniqueID, thrown>>

\* The issue with the parser's 0-based column passed on as it is.
ParseIssueZeroBased(f) ==
    IF f.parse.kind = "errorLoc"
    THEN [kind |-> "FileIssue", contents |-> f.contents, line |-> f.parse.line,
          column |-> f.parse.column, severity |-> "error"]
    ELSE [kind |-> "MessageIssue", contents |-> <<>>, line |-> 0, column |-> 0,
          severity |-> "error"]

\* The issue the catch block throws for the parser's failure.
ParseIssue(f) ==
    IF f.parse.kind = "errorLoc"
    THEN [kind |-> "FileIssue", contents |-> f.contents, line |-> f.parse.line,
          column |-> f.parse.column + 1, severity |-> "error"]
    ELSE [kind |-> "MessageIssue", contents |-> <<>>, line |-> 0, column |-> 0,
          severity |-> "error"]

\* parse throws.
ParseFails ==
    /\ pc = "start"
    /\ file.shouldProcess
    /\ file.parse.kind # "tree"
    /\ thrown' = ParseIssue(file)
    /\ pc' = "thrown"
    /\ UNCHANGED <<file, ast, cursor, sub, imports, chunks, resolveCalls, nextRequestID,
                   nextUniqueID, result>>

\* parse returns the tree.
Parse ==
    /\ pc = "start"
    /\ file.shouldProcess
    /\ file.parse.kind = "tree"
    /\ ast' = parse(file.contents)
    /\ pc' = "traverse"
    /\ UNCHANGED <<file, cursor, sub, imports, chunks, resolveCalls, nextRequestID,
                   nextUniqueID, thrown, result>>

VisitImportDeclaration ==
    /\ Visiting("ImportDeclaration")
    /\ Continue(processResolve(Locals, cursor))

VisitCallExpression ==
    /\ Visiting("CallExpression")
    /\ Continue(CallExpressionVisitor(Locals, cursor))

\* No visitor is registered for a function declaration: the traversal
\* enters its body.
EnterFunction ==
    /\ Visiting("FunctionDeclaration")
    /\ Continue(Locals)

\* The Identifier visitor on an identifier statement.
VisitIdentifier ==
    /\ Visiting("Identifier")
    /\ Continue(processReplaceable(Locals, cursor))

\* The MemberExpression visitor; the traversal then visits the object and
\* the property unless the node was replaced.
VisitMemberExpression ==
    /\ Visiting("MemberExpression")
    /\ sub = 0
    /\ IF Replaceable(ast[cursor].chain)
       THEN Continue(processReplaceable(Locals, cursor))
       ELSE sub' = 1 /\ UNCHANGED <<file, pc, ast, cursor, imports, chunks, resolveCalls,
                                    nextRequestID, nextUniqueID, thrown, result>>

\* The Identifier visitor on the object of a member expression.
VisitObject ==
    /\ Visiting("MemberExpression")
    /\ sub = 1
    /\ Store(processReplaceablePart(Locals, cursor, 1))
    /\ sub' = 2
    /\ UNCHANGED <<file, pc, cursor, result>>

\* The Identifier visitor on the property of a member expression.  When the
\* name is replaceable, path.replaceWith either puts the parsed expression in
\* the property slot or rejects it, a non-identifier property of a
\* non-computed member expression, with a TypeError: both are modelled.
VisitProperty ==
    /\ Visiting("MemberExpression")
    /\ sub = 2
    /\ \/ Continue(processReplaceablePart(Locals, cursor, 2))
       \/ /\ Replaceable(<<ast[cursor].chain[2]>>)
          /\ Continue([Locals EXCEPT !.thrown = TypeError])

\* generate and return.
Generate ==
    /\ pc = "traverse"
    /\ cursor > Len(ast)
    /\ result' = [kind |-> "result", chunks |-> chunks, imports |-> imports,
                  contents |-> generate(ast)]
    /\ pc' = "returned"
    /\ UNCHANGED <<file, ast, cursor, sub, imports, chunks, resolveCalls, nextRequestID,
                   nextUniqueID, thrown>>

Next ==
    \/ NotProcessed
    \/ ParseFails
    \/ Parse
    \/ VisitImportDeclaration
    \/ VisitCallExpression
    \/ EnterFunction
    \/ VisitIdentifier
    \/ VisitMemberExpression
    \/ VisitObject
    \/ VisitProperty
    \/ Generate


Spec == Init /\ [][Next]_vars

\* ------------------------------------------------- vocabulary of the claims

\* The transform returned a result for the file.
Done == pc = "returned" /\ result.kind = "result"

\* The tree as the parser returned it.
Original == parse(file.contents)

\* The calls made to the resolution capability with the value of node `at`.
CallsAt(at) == {k \in 1..Len(resolveCalls) : resolveCalls[k].at = at}

\* The calls a given place of the code made for statement i.
CallsBy(by, i) ==
    {k \in 1..Len(resolveCalls) : resolveCalls[k].by = by /\ resolveCalls[k].at[1] = i}

\* The node whose value a call passed, in tree t.
NodeAt(t, at) ==
    IF t[at[1]].type = "ImportDeclaration" THEN t[at[1]].source
    ELSE IF at[2] = 0 THEN t[at[1]].arguments[1]
    ELSE t[at[1]].arguments[1].elements[at[2]]

RECURSIVE Flatten(_)
Flatten(seqs) == IF seqs = <<>> THEN <<>> ELSE Head(seqs) \o Flatten(Tail(seqs))

\* Every request of the returned lists: imports, then each chunk's entry and nested list.
Recorded(r) ==
    r.imports \o Flatten([k \in 1..Len(r.chunks) |-> r.chunks[k].entry \o r.chunks[k].imports])

Occurrences(seq, id) == Cardinality({k \in 1..Len(seq) : seq[k].id = id})

Ids(seq) == [k \in 1..Len(seq) |-> seq[k].id]

\* The statements of tree t that are calls to `name` with a first argument of the given type.
IsCallTo(node, names, type) ==
    /\ node.type = "CallExpression"
    /\ getName(node.chain) \in names
    /\ Len(node.arguments) >= 1
    /\ node.arguments[1].type = type

\* The outer traversal has run its visitor on statement i.
Visited(i) == cursor > i \/ pc = "returned"

\* The visitor of statement i is the last that ran.
JustVisited(i) ==
    \/ pc = "traverse" /\ cursor = i + 1 /\ sub = 0
    \/ pc = "thrown" /\ cursor = i /\ i <= Len(ast)

\* ---------------------------------------------------------------- C1

ValueReached(i) ==
    LET nested == CallsBy("nested", i)
    IN  IF nested = {} THEN Original[i].arguments[1].value
        ELSE ToString(resolveCalls[CHOOSE k \in nested : \A l \in nested : l <= k].id)

OnlyImports ==
    /\ file.contents # <<>>
    /\ \A k \in 1..Len(file.contents) : Original[k].type = "ImportDeclaration"

\* C2: for a file of import declarations only, the returned imports hold one
\* request per declaration, in declaration order, and each declaration's
\* source holds the string form of its request's identifier, not the
\* specifier.
C2_StaticImports ==
    (Done /\ OnlyImports) =>
      /\ Len(result.imports) = Len(file.contents)
      /\ \A k \in 1..Len(file.contents) :
           /\ result.imports[k].request = Original[k].source.value
           /\ ast[k].source.value = ToString(result.imports[k].id)
           /\ result.contents[k][1] = "import '" \o ToString(result.imports[k].id) \o "'"
           /\ result.contents[k] # file.contents[k]

\* A finished transform of a file of two imports of different modules.
C2_Witness ==
    /\ Done
    /\ OnlyImports
    /\ Len(file.contents) >= 2
    /\ file.contents[1] # file.contents[2]

\* ---------------------------------------------------------------- C3

EnsureSite(node) == IsCallTo(node, RESOLVE_NAMES_CHUNK, "ArrayExpression")

\* The require.ensure call sites of the file, in tree order.
EnsureSites == SelectSeq([k \in 1..Len(file.contents) |-> k], LAMBDA k : EnsureSite(Original[k]))

Tokens == {ToString(t) : t \in 1..(nextUniqueID - 1)}

CallbackCalls(i) ==
    {j \in 1..Len(ast) : Inside(ast, i, j) /\ ast[j].type = "CallExpression"}

\* C4: once the visitor has processed a require.ensure call whose second
\* argument is a function expression with a parameter, every call in the
\* callback whose callee is the first parameter's name has one request in the
\* chunk's nested list, in visit order, and holds its identifier string, and
\* the nested traversal made no request for, and so left alone, every call
\* whose callee is anything else.
C4_NestedPass ==
    \A i \in 1..Len(ast) :
      (JustVisited(i) /\ EnsureSite(ast[i]) /\ HasCallback(ast[i])) =>
        LET alias == ast[i].arguments[2].params[1]
            mine == SelectSeq(resolveCalls, LAMBDA c : c.by = "nested" /\ c.owner = i)
        IN  /\ \A j \in CallbackCalls(i) :
                 IF alias # Undefined /\ getName(ast[j].chain) = alias
                 THEN /\ pc # "thrown"
                      /\ \E k \in 1..Len(mine) :
                           /\ mine[k].at = <<j, 0>>
                           /\ ast[j].arguments[1].value = ToString(mine[k].id)
                 ELSE \A k \in 1..Len(mine) : mine[k].at[1] # j
            /\ \A k, l \in 1..Len(mine) : k < l => mine[k].at[1] < mine[l].at[1]
            /\ pc # "thrown" => Ids(chunks[Len(chunks)].imports) = Ids(mine)

\* ---------------------------------------------------------------- C5

\* C5: with __DEV__ in the replacement table, a visited identifier __DEV__
\* is the parsed replacement, a visited identifier __dev__ is unchanged, and
\* a visited member expression whose flattened name is not in the table is
\* unchanged, its property name included.
C5_Replacement ==
    (pc \in {"traverse", "returned", "thrown"} /\ file.parse.kind = "tree") =>
      \A i \in 1..Len(ast) :
        /\ (Visited(i) /\ Original[i].type = "Identifier") =>
             IF getName(Original[i].chain) = "__DEV__"
             THEN ast[i].chain = <<getParsedReplacement(replaceVariables["__DEV__"])>>
             ELSE ast[i] = Original[i]
        /\ ((Visited(i) \/ JustVisited(i)) /\ Original[i].type = "MemberExpression"
              /\ getName(Original[i].chain) \notin DOMAIN replaceVariables) =>
             /\ ast[i] = Original[i]
             /\ pc # "thrown"

\* ---------------------------------------------------------------- C6

\* C6: a failure that leaves the transform is a FileIssue or a MessageIssue.
C6_OnlyIssues == pc = "thrown" => thrown.kind \in {"FileIssue", "MessageIssue"}

\* ---------------------------------------------------------------- C7

\* C7: when the parser fails the transform throws and returns nothing, the
\* resolution capability and the allocator were never called, and the issue
\* is a FileIssue with the contents, the line, the column plus one and
\* severity error when the failure has a location, a MessageIssue with
\* severity error when it has none.
C7_ParseFailure ==
    (file.shouldProcess /\ file.parse.kind # "tree" /\ pc # "start") =>
      /\ pc = "thrown"
      /\ result = NoResult
      /\ resolveCalls = <<>> /\ nextRequestID = 1 /\ nextUniqueID = 1
      /\ file.parse.kind = "errorLoc" =>
           thrown = [kind |-> "FileIssue", contents |-> file.contents, line |-> file.parse.line,
                     column |-> file.parse.column + 1, severity |-> "error"]
      /\ file.parse.kind = "error" =>
           (thrown.kind = "MessageIssue" /\ thrown.severity = "error")

\* The parser failed at a location and the transform has thrown.
C7_Witness == pc = "thrown" /\ file.parse.kind = "errorLoc" /\ file.parse.column = MaxColumn

\* ---------------------------------------------------------------- C8

\* C8: the resolution capability is only called with the value of a
\* string-literal node, and no recognized call with a non-literal or missing
\* argument makes the transform fail.
C8_LiteralsOnly ==
    file.parse.kind = "tree" =>
      /\ \A k \in 1..Len(resolveCalls) :
           NodeAt(Original, resolveCalls[k].at).type = "StringLiteral"
      /\ ~(pc = "thrown" /\ ast[cursor].type = "CallExpression")

\* ---------------------------------------------------------------- C9

\* C9: no node is passed to the resolution capability twice in one transform.
C9_ExactlyOnce ==
    \A k, l \in 1..Len(resolveCalls) : k # l => resolveCalls[k].at # resolveCalls[l].at

\* --------------------------------------------------------------- C10

====
